---- MODULE Spec2Model ----
(***************************************************************************)
(* The two Bezier-curve editors of the repository as state machines.       *)
(*                                                                         *)
(*   prog = "class"   src/source.cpp        class BezierCurve              *)
(*   prog = "global"  src/unnamed/part_000  global controlPoints, dragging *)
(*                                                                         *)
(* and the render loop of the cube scene, prog = "cube", src/s.cpp.        *)
(*                                                                         *)
(* A run is a run of one of the two programs; Init picks which.  The       *)
(* variables of the other program keep their initial value.                *)
(*                                                                         *)
(* Numbers.  A float is modelled by the exact rational it stands for.      *)
(* Screen coordinates are whole pixels.  A GL coordinate of part_000 is    *)
(* an integer count of 1/GL_ONE (0.01), so 0.03f is 3 and -0.8f is -80.    *)
(* A curve sample carries its denominator: De Casteljau at t = tn/td       *)
(* over n points yields numerators over td^(n-1).                          *)
(***************************************************************************)
EXTENDS Integers, Sequences, FiniteSets, TLC

VARIABLES
    prog,             \* which program runs: "class" or "global"
    cursor,           \* GLFW: the cursor position, in screen pixels
    left_down,        \* GLFW: state of GLFW_MOUSE_BUTTON_LEFT
    right_down,       \* GLFW: state of GLFW_MOUSE_BUTTON_RIGHT
    crashed,          \* the process was aborted by a checked out-of-range access
    \* source.cpp, class BezierCurve
    control_points, curve_points, moving_points,
    move_iter,        \* slot of the buffer the iterator points at (1-based, 0: singular)
    move_iter_valid,  \* FALSE once an operation has invalidated the iterator
    is_moving, is_deleting,
    \* part_000
    controlPoints, curvePoints, dragging, draggedIndex,
    \* history
    last,             \* the last event handled and what its hit-test found
    gest,             \* the drag gesture in progress (its press-time snapshot)
    \* source.cpp, compute_curve run one iteration at a time
    loop,             \* its position, the float t and what it has pushed
    \* source.cpp, a second BezierCurve that is sent every event but those
    \* of the Delete key
    twin,
    \* s.cpp, the cube scene
    pressed,          \* GLFW: the keys glfwGetKey reports as GLFW_PRESS
    windowShouldClose,
    cameraAngle, cameraHeight,   \* in steps of cameraSpeed
    lightOn, lKeyPressed, magentaOn, mKeyPressed,
    frame,            \* position in main's render loop and the frames run
    seen              \* history: the keys down at the previous frame, and counts

envVars    == <<cursor, left_down, right_down, crashed>>
classVars  == <<control_points, curve_points, moving_points, move_iter,
                move_iter_valid, is_moving, is_deleting>>
globalVars == <<controlPoints, curvePoints, dragging, draggedIndex>>
cubeVars   == <<pressed, windowShouldClose, cameraAngle, cameraHeight,
                lightOn, lKeyPressed, magentaOn, mKeyPressed, frame, seen>>
vars == <<prog, cursor, left_down, right_down, crashed,
          control_points, curve_points, moving_points, move_iter,
          move_iter_valid, is_moving, is_deleting,
          controlPoints, curvePoints, dragging, draggedIndex, last, gest, loop, twin,
          pressed, windowShouldClose, cameraAngle, cameraHeight,
          lightOn, lKeyPressed, magentaOn, mKeyPressed, frame, seen>>

(***************************************************************************)
(* Bounds of the model.                                                    *)
(***************************************************************************)
\* A point is added only while the list holds fewer points than this.
MaxPoints == 3
\* source.cpp samples at t = 0, CURVE_STEP, 2*CURVE_STEP, ... with
\* CURVE_STEP = 0.0001f; the editor model steps by 1/CurveStepDen.
CurveStepDen == 2
\* part_000 samples at t = i / CURVE_RESOLUTION, i = 0..CURVE_RESOLUTION, with
\* CURVE_RESOLUTION = 100; the editor model samples at i / CurveResolution.
CurveResolution == 2

(***************************************************************************)
(* Program constants.                                                      *)
(***************************************************************************)
POINT_THRESHOLD == 10
WINDOW_WIDTH == 800
WINDOW_HEIGHT == 600
\* 1.0f in GL coordinates, counted in units of 0.01
GL_ONE == 100
\* findPointUnderCursor's default threshold = 0.03f, in units of 0.01
threshold == 3

\* The cursor positions source.cpp's events are drawn from (screen pixels):
\*   (100,100)   a first position
\*   (106,108)   at distance exactly POINT_THRESHOLD from (100,100)
\*   (300,200)   far from both
ClassPositions == { <<100, 100>>, <<106, 108>>, <<300, 200>> }

(***************************************************************************)
(* source.cpp                                                              *)
(***************************************************************************)
\* control_points.erase(it, control_points.end()) in place of erase(it)
RemoveFrom(s, i) == SubSeq(s, 1, i - 1)

\* control_points.erase(it)
RemoveAt(s, i) == [k \in 1..(Len(s) - 1) |-> IF k < i THEN s[k] ELSE s[k + 1]]

\* is_close with the comparison made strict
is_close_strict(p1, p2) ==
    (p1[1] - p2[1]) * (p1[1] - p2[1]) + (p1[2] - p2[2]) * (p1[2] - p2[2])
        < POINT_THRESHOLD * POINT_THRESHOLD

\* std::sqrt(dx^2 + dy^2) <= POINT_THRESHOLD, on whole pixels
is_close(p1, p2) ==
    (p1[1] - p2[1]) * (p1[1] - p2[1]) + (p1[2] - p2[2]) * (p1[2] - p2[2])
        <= POINT_THRESHOLD * POINT_THRESHOLD

\* The element at C++ index k of a vector
At(v, k) == v[k + 1]

\* temp[i] * t + temp[i + 1] * (1 - t): the two weights exchanged
InterpolateSwapped(a, b, tn, td) ==
    <<tn * a[1] + (td - tn) * b[1], tn * a[2] + (td - tn) * b[2]>>

\* temp[i] * (1 - t) + temp[i + 1] * t, at t = tn/td: the numerator over td
Interpolate(a, b, tn, td) ==
    <<(td - tn) * a[1] + tn * b[1], (td - tn) * a[2] + tn * b[2]>>

\* temp[i] once the k loop has run k rounds (C++ index i, i < size - k).
\* Round k overwrites temp[0..size-k-1] in ascending order, so it reads
\* temp[i] and temp[i + 1] as round k - 1 left them; k rounds multiply the
\* denominator by td^k.
RECURSIVE TempAfter(_, _, _, _, _)
TempAfter(points, k, i, tn, td) ==
    IF k = 0 THEN At(points, i)
    ELSE Interpolate(TempAfter(points, k - 1, i, tn, td),
                     TempAfter(points, k - 1, i + 1, tn, td), tn, td)

RECURSIVE Pow(_, _)
Pow(b, e) == IF e = 0 THEN 1 ELSE b * Pow(b, e - 1)

\* compute_point(t): what it pushes onto curve_points
compute_point(points, tn, td) ==
    IF points # <<>>
    THEN LET temp0 == TempAfter(points, Len(points) - 1, 0, tn, td)
         IN  << [x |-> temp0[1], y |-> temp0[2],
                 den |-> Pow(td, Len(points) - 1)] >>
    ELSE <<>>

\* for (t = 0; t <= 1.0f; t += CURVE_STEP) compute_point(t), t = k / CurveStepDen
RECURSIVE StepLoop(_, _, _)
StepLoop(points, k, curve) ==
    IF k <= CurveStepDen
    THEN StepLoop(points, k + 1, curve \o compute_point(points, k, CurveStepDen))
    ELSE curve

\* compute_curve(): the new value of curve_points
compute_curve(points) ==
    IF Len(points) >= 2 THEN StepLoop(points, 0, <<>>) ELSE <<>>

\* The hit loops of handle_mouse_press: the first slot whose point is close
\* to p, 0 for control_points.end()
RECURSIVE FindClose(_, _, _)
FindClose(points, it, p) ==
    IF it > Len(points) THEN 0
    ELSE IF is_close(points[it], p) THEN it
    ELSE FindClose(points, it + 1, p)

NoGesture == [active |-> FALSE, points |-> <<>>, index |-> 0, moved |-> FALSE]

\* control_points.erase(it): iterators at or after it are invalidated
EraseInvalidates(it) == move_iter >= it

\* handle_mouse_press whose grab also snaps the hit point to the press position
handle_mouse_press_snaps(p, button) ==
    IF button = "LEFT" /\ ~is_moving
    THEN LET it == FindClose(control_points, 1, p)
         IN  IF it # 0
             THEN /\ is_moving' = TRUE
                  /\ move_iter' = it
                  /\ move_iter_valid' = TRUE
                  /\ moving_points' = Append(moving_points, p)
                  /\ control_points' = [control_points EXCEPT ![it] = p]
                  /\ curve_points' = compute_curve(control_points')
                  /\ UNCHANGED is_deleting
             ELSE UNCHANGED classVars
    ELSE IF button = "RIGHT"
    THEN LET it == FindClose(control_points, 1, p)
         IN  IF it # 0
             THEN /\ control_points' = RemoveAt(control_points, it)
                  /\ curve_points' = compute_curve(control_points')
                  /\ move_iter_valid' = (move_iter_valid /\ ~EraseInvalidates(it))
                  /\ UNCHANGED <<moving_points, move_iter, is_moving, is_deleting>>
             ELSE UNCHANGED classVars
    ELSE UNCHANGED classVars

handle_mouse_press(p, button) ==
    IF button = "LEFT" /\ ~is_moving
    THEN LET it == FindClose(control_points, 1, p)
         IN  IF it # 0
             THEN /\ is_moving' = TRUE
                  /\ move_iter' = it
                  /\ move_iter_valid' = TRUE
                  /\ moving_points' = Append(moving_points, p)
                  /\ UNCHANGED <<control_points, curve_points, is_deleting>>
             ELSE UNCHANGED classVars
    ELSE IF button = "RIGHT"
    THEN LET it == FindClose(control_points, 1, p)
         IN  IF it # 0
             THEN /\ control_points' = RemoveAt(control_points, it)
                  /\ curve_points' = compute_curve(control_points')
                  /\ move_iter_valid' = (move_iter_valid /\ ~EraseInvalidates(it))
                  /\ UNCHANGED <<moving_points, move_iter, is_moving, is_deleting>>
             ELSE UNCHANGED classVars
    ELSE UNCHANGED classVars

\* move_iter->x = x; move_iter->y = y through a raw pointer into the buffer:
\* a slot past the end is slack storage and changes no element
WriteThrough(points, it, p) ==
    IF it \in 1..Len(points) THEN [points EXCEPT ![it] = p] ELSE points

\* handle_mouse_release that inserts the new point at begin()
handle_mouse_release_prepends(p) ==
    IF is_moving
    THEN \/ /\ control_points' = WriteThrough(control_points, move_iter, p)
            /\ is_moving' = FALSE
            /\ moving_points' = <<>>
            /\ curve_points' = compute_curve(control_points')
            /\ UNCHANGED <<move_iter, move_iter_valid, is_deleting, crashed>>
         \/ /\ ~move_iter_valid
            /\ crashed' = TRUE
            /\ UNCHANGED classVars
    ELSE /\ Len(control_points) < MaxPoints
         /\ control_points' = <<p>> \o control_points
         /\ curve_points' = compute_curve(control_points')
         /\ move_iter_valid' = FALSE
         /\ UNCHANGED <<moving_points, move_iter, is_moving, is_deleting, crashed>>

\* handle_mouse_release that commits a drag only while Delete is not held
handle_mouse_release_unless_deleting(p) ==
    IF is_moving /\ ~is_deleting
    THEN \/ /\ control_points' = WriteThrough(control_points, move_iter, p)
            /\ is_moving' = FALSE
            /\ moving_points' = <<>>
            /\ curve_points' = compute_curve(control_points')
            /\ UNCHANGED <<move_iter, move_iter_valid, is_deleting, crashed>>
         \/ /\ ~move_iter_valid
            /\ crashed' = TRUE
            /\ UNCHANGED classVars
    ELSE /\ Len(control_points) < MaxPoints
         /\ control_points' = Append(control_points, p)
         /\ curve_points' = compute_curve(control_points')
         /\ move_iter_valid' = FALSE
         /\ UNCHANGED <<moving_points, move_iter, is_moving, is_deleting, crashed>>

handle_mouse_release(p) ==
    IF is_moving
    THEN \/ /\ control_points' = WriteThrough(control_points, move_iter, p)
            /\ is_moving' = FALSE
            /\ moving_points' = <<>>
            /\ curve_points' = compute_curve(control_points')
            /\ UNCHANGED <<move_iter, move_iter_valid, is_deleting, crashed>>
         \* an invalidated iterator dereferenced under checked iterators
         \/ /\ ~move_iter_valid
            /\ crashed' = TRUE
            /\ UNCHANGED classVars
    ELSE /\ Len(control_points) < MaxPoints
         /\ control_points' = Append(control_points, p)
         /\ curve_points' = compute_curve(control_points')
         /\ move_iter_valid' = FALSE
         /\ UNCHANGED <<moving_points, move_iter, is_moving, is_deleting, crashed>>

\* handle_key whose clear branches forget is_moving = false
handle_key_keeps_drag(key, action) ==
    IF key = "DELETE"
    THEN /\ is_deleting' = (action = "PRESS")
         /\ UNCHANGED <<control_points, curve_points, moving_points,
                        move_iter, move_iter_valid, is_moving>>
    ELSE IF key \in {"ENTER", "SPACE"} /\ action = "PRESS"
    THEN /\ control_points' = <<>>
         /\ moving_points' = <<>>
         /\ curve_points' = <<>>
         /\ is_deleting' = FALSE
         /\ move_iter_valid' = FALSE
         /\ UNCHANGED <<move_iter, is_moving>>
    ELSE UNCHANGED classVars

handle_key(key, action) ==
    IF key = "DELETE"
    THEN /\ is_deleting' = (action = "PRESS")
         /\ UNCHANGED <<control_points, curve_points, moving_points,
                        move_iter, move_iter_valid, is_moving>>
    ELSE IF key \in {"ENTER", "SPACE"} /\ action = "PRESS"
    THEN /\ control_points' = <<>>
         /\ moving_points' = <<>>
         /\ curve_points' = <<>>
         /\ is_moving' = FALSE
         /\ is_deleting' = FALSE
         /\ move_iter_valid' = FALSE
         /\ UNCHANGED move_iter
    ELSE UNCHANGED classVars

(***************************************************************************)
(* source.cpp: the handlers as functions of a BezierCurve object s, for    *)
(* the second object                                                        *)
(***************************************************************************)
\* BezierCurve curve;
NewCurve ==
    [control_points |-> <<>>, curve_points |-> <<>>, moving_points |-> <<>>,
     move_iter |-> 0, is_moving |-> FALSE, is_deleting |-> FALSE]

handle_mouse_press_on(s, p, button) ==
    IF button = "LEFT" /\ ~s.is_moving
    THEN LET it == FindClose(s.control_points, 1, p)
         IN  IF it # 0
             THEN [s EXCEPT !.is_moving = TRUE, !.move_iter = it,
                            !.moving_points = Append(@, p)]
             ELSE s
    ELSE IF button = "RIGHT"
    THEN LET it == FindClose(s.control_points, 1, p)
         IN  IF it # 0
             THEN [s EXCEPT !.control_points = RemoveAt(@, it),
                            !.curve_points = compute_curve(RemoveAt(s.control_points, it))]
             ELSE s
    ELSE s

handle_mouse_release_on(s, p) ==
    IF s.is_moving
    THEN [s EXCEPT !.control_points = WriteThrough(@, s.move_iter, p),
                   !.is_moving = FALSE,
                   !.moving_points = <<>>,
                   !.curve_points =
                       compute_curve(WriteThrough(s.control_points, s.move_iter, p))]
    ELSE [s EXCEPT !.control_points = Append(@, p),
                   !.curve_points = compute_curve(Append(s.control_points, p))]

handle_key_on(s, key, action) ==
    IF key = "DELETE"
    THEN [s EXCEPT !.is_deleting = (action = "PRESS")]
    ELSE IF key \in {"ENTER", "SPACE"} /\ action = "PRESS"
    THEN [s EXCEPT !.control_points = <<>>, !.moving_points = <<>>,
                   !.curve_points = <<>>, !.is_moving = FALSE,
                   !.is_deleting = FALSE]
    ELSE s

cursor_pos_callback_on(s, p) ==
    IF left_down /\ s.is_moving
    THEN handle_mouse_press_on(s, p, "LEFT")
    ELSE s

(***************************************************************************)
(* source.cpp: the GLFW callbacks registered in main                       *)
(***************************************************************************)
ButtonDown(button) == IF button = "LEFT" THEN left_down ELSE right_down

SetButton(button, down) ==
    IF button = "LEFT"
    THEN left_down' = down /\ UNCHANGED right_down
    ELSE right_down' = down /\ UNCHANGED left_down

Buttons == {"LEFT", "RIGHT"}

\* glfwSetMouseButtonCallback, action == GLFW_PRESS
ClassMousePress(button) ==
    /\ prog = "class" /\ ~crashed
    /\ ~ButtonDown(button)
    /\ SetButton(button, TRUE)
    /\ handle_mouse_press(cursor, button)
    /\ last' = [ev |-> "press", button |-> button, action |-> "PRESS",
                hit |-> IF button = "LEFT" /\ is_moving THEN 0
                        ELSE FindClose(control_points, 1, cursor),
                size |-> Len(control_points), drag |-> NoGesture]
    /\ gest' = IF button = "LEFT" /\ ~is_moving /\ is_moving'
               THEN [active |-> TRUE, points |-> control_points,
                     index |-> move_iter', moved |-> FALSE]
               ELSE NoGesture
    /\ twin' = handle_mouse_press_on(twin, cursor, button)
    /\ UNCHANGED <<prog, cubeVars, loop, cursor, crashed, globalVars>>

\* glfwSetMouseButtonCallback, action == GLFW_RELEASE: only the left button
\* is forwarded
ClassMouseRelease(button) ==
    /\ prog = "class" /\ ~crashed
    /\ ButtonDown(button)
    /\ SetButton(button, FALSE)
    /\ IF button = "LEFT"
       THEN handle_mouse_release(cursor)
       ELSE UNCHANGED <<classVars, crashed>>
    /\ last' = [ev |-> "release", button |-> button, action |-> "RELEASE",
                hit |-> 0,
                size |-> Len(control_points),
                drag |-> IF button = "LEFT" THEN gest ELSE NoGesture]
    /\ gest' = NoGesture
    /\ twin' = IF button = "LEFT" /\ ~crashed'
               THEN handle_mouse_release_on(twin, cursor) ELSE twin
    /\ UNCHANGED <<prog, cubeVars, loop, cursor, globalVars>>

\* The cursor callback of a live-preview editor: the dragged point follows
\* the cursor in the list itself
cursor_pos_callback_live(p) ==
    IF left_down /\ is_moving
    THEN /\ control_points' = WriteThrough(control_points, move_iter, p)
         /\ curve_points' = compute_curve(control_points')
         /\ UNCHANGED <<moving_points, move_iter, move_iter_valid, is_moving, is_deleting>>
    ELSE UNCHANGED classVars

\* The lambda given to glfwSetCursorPosCallback
cursor_pos_callback(p) ==
    IF left_down /\ is_moving
    THEN handle_mouse_press(p, "LEFT")
    ELSE UNCHANGED classVars

\* glfwSetCursorPosCallback: the cursor moves to p
ClassCursorPos(p) ==
    /\ prog = "class" /\ ~crashed
    /\ p # cursor
    /\ cursor' = p
    /\ cursor_pos_callback(p)
    /\ last' = [ev |-> "move", button |-> "NONE", action |-> "NONE", hit |-> 0,
                size |-> Len(control_points), drag |-> NoGesture]
    /\ gest' = IF gest.active THEN [gest EXCEPT !.moved = TRUE] ELSE gest
    /\ twin' = cursor_pos_callback_on(twin, p)
    /\ UNCHANGED <<prog, cubeVars, loop, left_down, right_down, crashed, globalVars>>

Keys == {"DELETE", "ENTER", "SPACE"}
\* handle_key compares action with GLFW_PRESS only; RELEASE stands for every
\* action that is not a press.
KeyActions == {"PRESS", "RELEASE"}

\* glfwSetKeyCallback
ClassKey(key, action) ==
    /\ prog = "class" /\ ~crashed
    /\ handle_key(key, action)
    /\ last' = [ev |-> "key", button |-> key, action |-> action, hit |-> 0,
                size |-> Len(control_points), drag |-> gest]
    /\ gest' = NoGesture
    /\ twin' = IF key = "DELETE" THEN twin ELSE handle_key_on(twin, key, action)
    /\ UNCHANGED <<prog, cubeVars, loop, envVars, globalVars>>

(***************************************************************************)
(* part_000                                                                *)
(***************************************************************************)
\* The cursor positions part_000's events are drawn from (screen pixels),
\* and the GL position each converts to:
\*   (88,540)  -> (-0.78,-0.80)  at distance 0.02 from the seed's first point
\*   (92,540)  -> (-0.77,-0.80)  at distance exactly 0.03 from it
\*   (720,60)  -> ( 0.80, 0.80)  on the seed's last point
\*   (240,30)  -> (-0.40, 0.90)  on the seed's second point
GlobalPositions == { <<88, 540>>, <<92, 540>>, <<720, 60>>, <<240, 30>> }

\* main: controlPoints = { -0.8f, -0.8f, -0.4f, 0.9f, 0.4f, -0.9f, 0.8f, 0.8f }
InitialControlPoints == <<-80, -80, -40, 90, 40, -90, 80, 80>>

\* outX = 2.0f * x / WINDOW_WIDTH - 1.0f;  outY = 1.0f - 2.0f * y / WINDOW_HEIGHT
screenToGLCoords(x, y) ==
    << (2 * GL_ONE * x) \div WINDOW_WIDTH - GL_ONE,
       GL_ONE - (2 * GL_ONE * y) \div WINDOW_HEIGHT >>

\* The rounds with the weights t and 1 - t exchanged
RECURSIVE BezierTempSwapped(_, _, _, _, _, _)
BezierTempSwapped(points, r, j, c, tn, td) ==
    IF r = 0 THEN At(points, j * 2 + c)
    ELSE tn * BezierTempSwapped(points, r - 1, j, c, tn, td)
             + (td - tn) * BezierTempSwapped(points, r - 1, j + 1, c, tn, td)

\* temp[j * 2 + c] once the r loop has run r rounds (c = 0 for x, 1 for y;
\* j <= n - r).  Round r overwrites points 0..n-r in ascending order, so it
\* reads points j and j + 1 as round r - 1 left them:
\*   temp[j*2]   = (1 - t) * temp[j*2]   + t * temp[(j+1)*2]
\*   temp[j*2+1] = (1 - t) * temp[j*2+1] + t * temp[(j+1)*2+1]
\* at t = tn/td; r rounds multiply the denominator by td^r.
RECURSIVE BezierTemp(_, _, _, _, _, _)
BezierTemp(points, r, j, c, tn, td) ==
    IF r = 0 THEN At(points, j * 2 + c)
    ELSE (td - tn) * BezierTemp(points, r - 1, j, c, tn, td)
             + tn * BezierTemp(points, r - 1, j + 1, c, tn, td)

\* The body of the i loop, t = i / resolution: the two floats pushed, each a
\* pair <<numerator, denominator>>
BezierSample(points, n, i, resolution) ==
    LET den == Pow(resolution, n)
    IN  << <<BezierTemp(points, n, 0, 0, i, resolution), den>>,
           <<BezierTemp(points, n, 0, 1, i, resolution), den>> >>

\* for (i = lo; i < hi; ++i): the loop with its bound made exclusive
RECURSIVE BezierLoopExclusive(_, _, _, _, _)
BezierLoopExclusive(points, n, lo, hi, resolution) ==
    IF lo >= hi THEN <<>>
    ELSE IF lo + 1 = hi THEN BezierSample(points, n, lo, resolution)
    ELSE BezierLoopExclusive(points, n, lo, (lo + hi) \div 2, resolution)
             \o BezierLoopExclusive(points, n, (lo + hi) \div 2, hi, resolution)

\* for (i = lo; i <= hi; ++i): what the loop pushes, in ascending i (the
\* range is halved rather than stepped to keep the evaluation shallow)
RECURSIVE BezierLoop(_, _, _, _, _)
BezierLoop(points, n, lo, hi, resolution) ==
    IF lo > hi THEN <<>>
    ELSE IF lo = hi THEN BezierSample(points, n, lo, resolution)
    ELSE BezierLoop(points, n, lo, (lo + hi) \div 2, resolution)
             \o BezierLoop(points, n, (lo + hi) \div 2 + 1, hi, resolution)

\* computeBezierCurve(points) with the loop bound as a parameter: a flat
\* vector of x, y, x, y, ...
computeBezierCurveAt(points, resolution) ==
    LET n == Len(points) \div 2 - 1
    IN  IF n < 1 THEN <<>> ELSE BezierLoop(points, n, 0, resolution, resolution)

\* computeBezierCurve(points) as the editor model samples it
computeBezierCurve(points) == computeBezierCurveAt(points, CurveResolution)

\* updateBuffers() without its first line: curvePoints keeps its old value
updateBuffersStale(points) == curvePoints

\* updateBuffers(): the new value of curvePoints (the GL uploads are not modelled)
updateBuffers(points) == computeBezierCurve(points)

\* getPointDistance: the squared distance
getPointDistance(points, pointIndex, x, y) ==
    LET dx == At(points, pointIndex * 2) - x
        dy == At(points, pointIndex * 2 + 1) - y
    IN  dx * dx + dy * dy

\* The loop without its early return: the last match wins
RECURSIVE FindLoopLast(_, _, _, _)
FindLoopLast(points, i, x, y) ==
    IF i < Len(points) \div 2
    THEN LET later == FindLoopLast(points, i + 1, x, y)
         IN  IF later # -1 THEN later
             ELSE IF (At(points, i * 2) - x) * (At(points, i * 2) - x)
                       + (At(points, i * 2 + 1) - y) * (At(points, i * 2 + 1) - y)
                          < threshold * threshold
                  THEN i ELSE -1
    ELSE -1

\* for (i = 0; i < controlPoints.size() / 2; ++i) if (... < threshold * threshold) return i;
RECURSIVE FindLoop(_, _, _, _)
FindLoop(points, i, x, y) ==
    IF i < Len(points) \div 2
    THEN IF getPointDistance(points, i, x, y) < threshold * threshold
         THEN i
         ELSE FindLoop(points, i + 1, x, y)
    ELSE -1

findPointUnderCursor(points, x, y) == FindLoop(points, 0, x, y)

\* controlPoints.erase(begin() + pointIndex * 2, begin() + pointIndex * 2 + 2)
EraseTwo(points, pointIndex) ==
    [k \in 1..(Len(points) - 2) |->
        IF k <= pointIndex * 2 THEN points[k] ELSE points[k + 2]]

\* The two stores with mx and my exchanged
StoreAtSwapped(points, index, mx, my) ==
    [k \in 1..Len(points) |->
        IF k = index * 2 + 1 THEN my
        ELSE IF k = index * 2 + 2 THEN mx
        ELSE points[k]]

\* controlPoints[draggedIndex * 2] = mx; controlPoints[draggedIndex * 2 + 1] = my
\* with unchecked operator[]: floats past size() are slack storage of the buffer
StoreAt(points, index, mx, my) ==
    [k \in 1..Len(points) |->
        IF k = index * 2 + 1 THEN mx
        ELSE IF k = index * 2 + 2 THEN my
        ELSE points[k]]

InRange(points, index) == index >= 0 /\ index * 2 + 1 < Len(points)

\* The floor counted in floats where points were meant
EnoughToDeleteOffByOne(points) == Len(points) > 2

\* if (controlPoints.size() > 4): keep at least 2 points (4 floats)
EnoughToDelete(points) == Len(points) > 4

\* mouse_button_callback, action == GLFW_PRESS
GlobalMousePress(button) ==
    /\ prog = "global" /\ ~crashed
    /\ ~ButtonDown(button)
    /\ SetButton(button, TRUE)
    /\ LET m == screenToGLCoords(cursor[1], cursor[2])
           pointIndex == findPointUnderCursor(controlPoints, m[1], m[2])
       IN  /\ IF button = "LEFT"
              THEN IF pointIndex # -1
                   THEN /\ dragging' = TRUE
                        /\ draggedIndex' = pointIndex
                        /\ UNCHANGED <<controlPoints, curvePoints>>
                   ELSE /\ Len(controlPoints) \div 2 < MaxPoints
                        /\ controlPoints' = controlPoints \o <<m[1], m[2]>>
                        /\ curvePoints' = updateBuffers(controlPoints')
                        /\ UNCHANGED <<dragging, draggedIndex>>
              ELSE IF button = "RIGHT" /\ controlPoints # <<>>
                      /\ pointIndex # -1 /\ EnoughToDelete(controlPoints)
                   THEN /\ controlPoints' = EraseTwo(controlPoints, pointIndex)
                        /\ curvePoints' = updateBuffers(controlPoints')
                        /\ UNCHANGED <<dragging, draggedIndex>>
                   ELSE UNCHANGED globalVars
           /\ last' = [ev |-> "press", button |-> button, action |-> "PRESS",
                       hit |-> IF button = "RIGHT" /\ controlPoints = <<>>
                               THEN -1 ELSE pointIndex,
                       size |-> Len(controlPoints) \div 2, drag |-> NoGesture]
           /\ gest' = IF button = "LEFT" /\ pointIndex # -1
                      THEN [active |-> TRUE, points |-> controlPoints,
                            index |-> pointIndex, moved |-> FALSE]
                      ELSE NoGesture
    /\ UNCHANGED <<prog, cubeVars, loop, twin, cursor, crashed, classVars>>

\* The release branch of a callback that ends the drag on the left button only
GlobalMouseReleaseLeftOnly(button) ==
    /\ prog = "global" /\ ~crashed
    /\ ButtonDown(button)
    /\ SetButton(button, FALSE)
    /\ IF button = "LEFT"
       THEN dragging' = FALSE /\ draggedIndex' = -1
       ELSE UNCHANGED <<dragging, draggedIndex>>
    /\ last' = [ev |-> "release", button |-> button, action |-> "RELEASE",
                hit |-> -1,
                size |-> Len(controlPoints) \div 2,
                drag |-> IF button = "LEFT" THEN gest ELSE NoGesture]
    /\ gest' = NoGesture
    /\ UNCHANGED <<prog, cubeVars, loop, twin, cursor, crashed, classVars, controlPoints, curvePoints>>

\* mouse_button_callback, action == GLFW_RELEASE (any button)
GlobalMouseRelease(button) ==
    /\ prog = "global" /\ ~crashed
    /\ ButtonDown(button)
    /\ SetButton(button, FALSE)
    /\ dragging' = FALSE
    /\ draggedIndex' = -1
    /\ last' = [ev |-> "release", button |-> button, action |-> "RELEASE",
                hit |-> -1,
                size |-> Len(controlPoints) \div 2,
                drag |-> IF button = "LEFT" THEN gest ELSE NoGesture]
    /\ gest' = NoGesture
    /\ UNCHANGED <<prog, cubeVars, loop, twin, cursor, crashed, classVars, controlPoints, curvePoints>>

\* cursor_position_callback
GlobalCursorPos(p) ==
    /\ prog = "global" /\ ~crashed
    /\ p # cursor
    /\ cursor' = p
    /\ IF dragging /\ draggedIndex # -1
       THEN LET m == screenToGLCoords(p[1], p[2])
            IN  \/ /\ controlPoints' = StoreAt(controlPoints, draggedIndex, m[1], m[2])
                   /\ curvePoints' = updateBuffers(controlPoints')
                   /\ UNCHANGED <<dragging, draggedIndex, crashed>>
                \* an out-of-range operator[] under a checked standard library
                \/ /\ ~InRange(controlPoints, draggedIndex)
                   /\ crashed' = TRUE
                   /\ UNCHANGED globalVars
       ELSE UNCHANGED <<globalVars, crashed>>
    /\ last' = [ev |-> "move", button |-> "NONE", action |-> "NONE", hit |-> -1,
                size |-> Len(controlPoints) \div 2, drag |-> NoGesture]
    /\ gest' = IF gest.active THEN [gest EXCEPT !.moved = TRUE] ELSE gest
    /\ UNCHANGED <<prog, cubeVars, loop, twin, left_down, right_down, classVars>>

(***************************************************************************)
(* s.cpp: the cube scene                                                   *)
(***************************************************************************)
\* The frames a run of the render loop is followed for.
MaxFrames == 3

\* The keys processInput asks glfwGetKey about
CubeKeys == {"ESCAPE", "A", "D", "W", "S", "L", "M"}

\* The sets of keys a frame finds down: every combination of the two toggle
\* keys, with one of a few holds of the camera keys and Escape
OtherHolds == { {}, {"A"}, {"W"}, {"D", "S"}, {"ESCAPE"} }
HeldSets == { toggles \cup others : toggles \in SUBSET {"L", "M"}, others \in OtherHolds }

\* glfwGetKey(window, key) == GLFW_PRESS
KeyDown(key) == key \in pressed

\* cameraAngle += cameraSpeed / -= cameraSpeed, cameraHeight likewise, counted
\* in steps of cameraSpeed; cameraPos is a function of the two.
CameraStep(plus, minus) ==
    (IF KeyDown(plus) THEN 1 ELSE 0) - (IF KeyDown(minus) THEN 1 ELSE 0)

\* processInput whose L branch forgets lKeyPressed = true
processInput_no_latch ==
    /\ windowShouldClose' = (windowShouldClose \/ KeyDown("ESCAPE"))
    /\ cameraAngle' = cameraAngle + CameraStep("A", "D")
    /\ cameraHeight' = cameraHeight + CameraStep("W", "S")
    /\ IF KeyDown("L")
       THEN IF ~lKeyPressed
            THEN lightOn' = ~lightOn /\ UNCHANGED lKeyPressed
            ELSE UNCHANGED <<lightOn, lKeyPressed>>
       ELSE lKeyPressed' = FALSE /\ UNCHANGED lightOn
    /\ IF KeyDown("M")
       THEN IF ~mKeyPressed
            THEN magentaOn' = ~magentaOn /\ mKeyPressed' = TRUE
            ELSE UNCHANGED <<magentaOn, mKeyPressed>>
       ELSE mKeyPressed' = FALSE /\ UNCHANGED magentaOn

processInput ==
    /\ windowShouldClose' = (windowShouldClose \/ KeyDown("ESCAPE"))
    /\ cameraAngle' = cameraAngle + CameraStep("A", "D")
    /\ cameraHeight' = cameraHeight + CameraStep("W", "S")
    /\ IF KeyDown("L")
       THEN IF ~lKeyPressed
            THEN lightOn' = ~lightOn /\ lKeyPressed' = TRUE
            ELSE UNCHANGED <<lightOn, lKeyPressed>>
       ELSE lKeyPressed' = FALSE /\ UNCHANGED lightOn
    /\ IF KeyDown("M")
       THEN IF ~mKeyPressed
            THEN magentaOn' = ~magentaOn /\ mKeyPressed' = TRUE
            ELSE UNCHANGED <<magentaOn, mKeyPressed>>
       ELSE mKeyPressed' = FALSE /\ UNCHANGED magentaOn

\* History of the frames: a key rises in a frame when glfwGetKey reports it
\* pressed and reported it released in the frame before (released before the
\* first frame); a toggle flips when the frame changes its value.
Bump(count, yes) == IF yes THEN count + 1 ELSE count

NoFrames ==
    [held |-> {}, rises |-> [L |-> 0, M |-> 0], flips |-> [L |-> 0, M |-> 0]]

\* The cube scene before main's render loop, and in the runs of the editors
CubeIdle ==
    /\ pressed = {} /\ windowShouldClose = FALSE
    /\ cameraAngle = 0 /\ cameraHeight = 0
    /\ lightOn = TRUE /\ lKeyPressed = FALSE
    /\ magentaOn = FALSE /\ mKeyPressed = FALSE
    /\ seen = NoFrames

\* main, render loop: while (!glfwWindowShouldClose(window)) processInput(window)
CubeFrame ==
    /\ prog = "cube" /\ frame.pc = "processInput"
    /\ ~windowShouldClose
    /\ frame.n < MaxFrames
    /\ processInput
    /\ frame' = [pc |-> "glfwPollEvents", n |-> frame.n + 1]
    /\ seen' = [held  |-> pressed,
                rises |-> [L |-> Bump(seen.rises.L, "L" \in pressed \ seen.held),
                           M |-> Bump(seen.rises.M, "M" \in pressed \ seen.held)],
                flips |-> [L |-> Bump(seen.flips.L, lightOn' # lightOn),
                           M |-> Bump(seen.flips.M, magentaOn' # magentaOn)]]
    /\ UNCHANGED <<prog, pressed, envVars, classVars, globalVars, last, gest, loop, twin>>

\* main, render loop: glfwSwapBuffers(window); glfwPollEvents(); the window
\* now reports the keys of held as pressed
CubePollEvents(held) ==
    /\ prog = "cube" /\ frame.pc = "glfwPollEvents"
    /\ pressed' = held
    /\ frame' = [frame EXCEPT !.pc = "processInput"]
    /\ UNCHANGED <<prog, windowShouldClose, cameraAngle, cameraHeight, lightOn,
                   lKeyPressed, magentaOn, mKeyPressed, seen,
                   envVars, classVars, globalVars, last, gest, loop, twin>>

\* main, render loop: glfwWindowShouldClose(window) is true, the loop ends
CubeExit ==
    /\ prog = "cube" /\ frame.pc = "processInput"
    /\ windowShouldClose
    /\ frame' = [frame EXCEPT !.pc = "exit"]
    /\ UNCHANGED <<prog, pressed, windowShouldClose, cameraAngle, cameraHeight,
                   lightOn, lKeyPressed, magentaOn, mKeyPressed, seen,
                   envVars, classVars, globalVars, last, gest, loop, twin>>

(***************************************************************************)
(* The specification                                                       *)
(***************************************************************************)
\* compute_curve is not being stepped
NoLoop == [pc |-> "none", t |-> [m |-> 0, e |-> 0], size |-> 0,
           back |-> [m |-> 0, e |-> 0]]

NoEvent(none, size) ==
    [ev |-> "init", button |-> "NONE", action |-> "NONE", hit |-> none,
     size |-> size, drag |-> NoGesture]

InitClass ==
    /\ prog = "class"
    /\ cursor \in ClassPositions
    /\ control_points = <<>> /\ curve_points = <<>> /\ moving_points = <<>>
    /\ move_iter = 0 /\ move_iter_valid = FALSE
    /\ is_moving = FALSE /\ is_deleting = FALSE
    /\ controlPoints = <<>> /\ curvePoints = <<>>
    /\ dragging = FALSE /\ draggedIndex = -1
    /\ last = NoEvent(0, 0)

InitGlobal ==
    /\ prog = "global"
    /\ cursor \in GlobalPositions
    /\ control_points = <<>> /\ curve_points = <<>> /\ moving_points = <<>>
    /\ move_iter = 0 /\ move_iter_valid = FALSE
    /\ is_moving = FALSE /\ is_deleting = FALSE
    /\ controlPoints = InitialControlPoints
    /\ curvePoints = computeBezierCurve(InitialControlPoints)   \* main: updateBuffers()
    /\ dragging = FALSE /\ draggedIndex = -1
    /\ last = NoEvent(-1, Len(InitialControlPoints) \div 2)

Init ==
    /\ left_down = FALSE /\ right_down = FALSE /\ crashed = FALSE
    /\ gest = NoGesture /\ loop = NoLoop /\ twin = NewCurve
    /\ CubeIdle /\ frame = [pc |-> "none", n |-> 0]
    /\ (InitClass \/ InitGlobal)

Next ==
    \/ \E button \in Buttons : ClassMousePress(button)
    \/ \E button \in Buttons : ClassMouseRelease(button)
    \/ \E p \in ClassPositions : ClassCursorPos(p)
    \/ \E key \in Keys, action \in KeyActions : ClassKey(key, action)
    \/ \E button \in Buttons : GlobalMousePress(button)
    \/ \E button \in Buttons : GlobalMouseRelease(button)
    \/ \E p \in GlobalPositions : GlobalCursorPos(p)

Spec == Init /\ [][Next]_vars

(***************************************************************************)
(* The two evaluators as pure functions: a run picks a control-point list  *)
(* and calls computeBezierCurve (part_000) and compute_curve (source.cpp)  *)
(* on it.  prog = "eval".                                                  *)
(***************************************************************************)
\* The longest list evaluated
MaxEvalPoints == 4

CURVE_RESOLUTION == 100

\* The points the lists are made of
EvalPoints == { <<0, 0>>, <<5, 10>>, <<10, 0>> }

EvalLists == UNION { [1..n -> EvalPoints] : n \in 0..MaxEvalPoints }

\* The resolutions computeBezierCurve is run with
EvalResolutions == { 10, CURVE_RESOLUTION }

\* A list of points as part_000 stores it: x, y, x, y, ...
Flatten(points) ==
    [k \in 1..(2 * Len(points)) |-> points[(k + 1) \div 2][((k - 1) % 2) + 1]]

InitEval ==
    /\ prog = "eval"
    /\ cursor = <<0, 0>> /\ left_down = FALSE /\ right_down = FALSE
    /\ crashed = FALSE
    /\ control_points \in EvalLists
    /\ curve_points = <<>> /\ moving_points = <<>>
    /\ move_iter = 0 /\ move_iter_valid = FALSE
    /\ is_moving = FALSE /\ is_deleting = FALSE
    /\ controlPoints = Flatten(control_points)
    /\ curvePoints = <<>>
    /\ dragging = FALSE /\ draggedIndex = -1
    /\ last = [ev |-> "init", resolution |-> 0]
    /\ gest = NoGesture /\ loop = NoLoop /\ twin = NewCurve
    /\ CubeIdle /\ frame = [pc |-> "none", n |-> 0]

\* curvePoints = computeBezierCurve(controlPoints) at the given resolution
EvalBezier(resolution) ==
    /\ prog = "eval"
    /\ curvePoints' = computeBezierCurveAt(controlPoints, resolution)
    /\ last' = [ev |-> "computeBezierCurve", resolution |-> resolution]
    /\ UNCHANGED <<prog, cubeVars, envVars, classVars, controlPoints, dragging,
                   draggedIndex, gest, loop, twin>>

\* curve.compute_curve()
EvalCurve ==
    /\ prog = "eval"
    /\ curve_points' = compute_curve(control_points)
    /\ last' = [ev |-> "compute_curve", resolution |-> CurveStepDen]
    /\ UNCHANGED <<prog, cubeVars, envVars, control_points, moving_points, move_iter,
                   move_iter_valid, is_moving, is_deleting, globalVars, gest, loop,
                   twin>>

EvalNext ==
    \/ \E resolution \in EvalResolutions : EvalBezier(resolution)
    \/ EvalCurve

EvalSpec == InitEval /\ [][EvalNext]_vars

(***************************************************************************)
(* source.cpp: compute_curve's loop                                        *)
(*     for (float t = 0; t <= 1.0f; t += CURVE_STEP) compute_point(t);     *)
(* run one iteration at a time in IEEE-754 binary32 arithmetic, rounding   *)
(* to nearest, ties to even.  prog = "step".                               *)
(*                                                                         *)
(* A float >= 0 is a record [m, e] that stands for m * 2^(e - 23) with     *)
(* 2^23 <= m < 2^24, or m = 0 for zero.                                    *)
(***************************************************************************)
FloatZero == [m |-> 0, e |-> 0]
\* 1.0f
FloatOne == [m |-> Pow(2, 23), e |-> 0]
\* constexpr float CURVE_STEP = 0.0001f: the float nearest to 1/10000 is
\* 13743895 * 2^-37
CURVE_STEP == [m |-> 13743895, e |-> -14]

\* a <= b on floats >= 0
FloatLE(a, b) ==
    IF a.m = 0 THEN TRUE
    ELSE IF b.m = 0 THEN FALSE
    ELSE a.e < b.e \/ (a.e = b.e /\ a.m <= b.m)

\* m * 2^(e - 23) with m possibly 2^24 after rounding up
Normalized(m, e) ==
    IF m = Pow(2, 24) THEN [m |-> Pow(2, 23), e |-> e + 1] ELSE [m |-> m, e |-> e]

\* The float a + b for floats a >= b > 0, or a = 0: b is shifted to a's
\* exponent, the exact sum is rounded to 24 bits
FloatAdd(a, b) ==
    IF a.m = 0 THEN b
    ELSE IF a.e - b.e >= 26 THEN a
    ELSE LET k == a.e - b.e
             unit == Pow(2, k)
             q == b.m \div unit
             rem == b.m % unit
             sum == a.m + q
         IN  IF sum < Pow(2, 24)
             THEN LET up == IF 2 * rem > unit \/ (2 * rem = unit /\ sum % 2 = 1)
                            THEN 1 ELSE 0
                  IN  Normalized(sum + up, a.e)
             ELSE LET m2 == sum \div 2
                      rem2 == (sum % 2) * unit + rem
                      up == IF rem2 > unit \/ (rem2 = unit /\ m2 % 2 = 1)
                            THEN 1 ELSE 0
                  IN  Normalized(m2 + up, a.e + 1)

\* The control points the loop is run on: compute_point is exact on them
\* in float arithmetic for t >= 1/2
StepPoints == { <<0, 0>>, <<1, 1>> }
StepLists == UNION { [1..n -> StepPoints] : n \in 1..2 }

\* compute_curve() entered: curve_points.clear(), float t = 0
InitStep ==
    /\ prog = "step"
    /\ cursor = <<0, 0>> /\ left_down = FALSE /\ right_down = FALSE
    /\ crashed = FALSE
    /\ control_points \in StepLists
    /\ curve_points = <<>> /\ moving_points = <<>>
    /\ move_iter = 0 /\ move_iter_valid = FALSE
    /\ is_moving = FALSE /\ is_deleting = FALSE
    /\ controlPoints = <<>> /\ curvePoints = <<>>
    /\ dragging = FALSE /\ draggedIndex = -1
    /\ last = [ev |-> "compute_curve"]
    /\ gest = NoGesture /\ twin = NewCurve
    /\ loop = [pc |-> "test", t |-> FloatZero, size |-> 0, back |-> FloatZero]
    /\ CubeIdle /\ frame = [pc |-> "none", n |-> 0]

\* One iteration: t <= 1.0f holds, compute_point(t) pushes a sample (loop.size
\* counts them, loop.back is the t of the last one), t += CURVE_STEP
StepIterate ==
    /\ prog = "step" /\ loop.pc = "test"
    /\ Len(control_points) >= 2
    /\ FloatLE(loop.t, FloatOne)
    /\ loop' = [pc |-> "test", t |-> FloatAdd(loop.t, CURVE_STEP),
                size |-> loop.size + 1, back |-> loop.t]
    /\ UNCHANGED <<prog, cubeVars, envVars, classVars, globalVars, last, gest, twin>>

\* size() < 2, or t <= 1.0f fails: compute_curve returns
StepExit ==
    /\ prog = "step" /\ loop.pc = "test"
    /\ Len(control_points) < 2 \/ ~FloatLE(loop.t, FloatOne)
    /\ loop' = [loop EXCEPT !.pc = "done"]
    /\ UNCHANGED <<prog, cubeVars, envVars, classVars, globalVars, last, gest, twin>>

StepNext == StepIterate \/ StepExit

StepSpec == InitStep /\ [][StepNext]_vars

(***************************************************************************)
(* The render loop of the cube scene                                       *)
(***************************************************************************)
\* main up to the render loop: the globals hold their initialisers; the
\* window may already report keys as pressed
InitCube ==
    /\ prog = "cube"
    /\ cursor = <<0, 0>> /\ left_down = FALSE /\ right_down = FALSE
    /\ crashed = FALSE
    /\ control_points = <<>> /\ curve_points = <<>> /\ moving_points = <<>>
    /\ move_iter = 0 /\ move_iter_valid = FALSE
    /\ is_moving = FALSE /\ is_deleting = FALSE
    /\ controlPoints = <<>> /\ curvePoints = <<>>
    /\ dragging = FALSE /\ draggedIndex = -1
    /\ last = [ev |-> "init"]
    /\ gest = NoGesture /\ loop = NoLoop /\ twin = NewCurve
    /\ pressed \in HeldSets /\ windowShouldClose = FALSE
    /\ cameraAngle = 0 /\ cameraHeight = 0
    /\ lightOn = TRUE /\ lKeyPressed = FALSE
    /\ magentaOn = FALSE /\ mKeyPressed = FALSE
    /\ seen = NoFrames
    /\ frame = [pc |-> "processInput", n |-> 0]

CubeNext ==
    \/ CubeFrame
    \/ \E held \in HeldSets : CubePollEvents(held)
    \/ CubeExit

CubeSpec == InitCube /\ [][CubeNext]_vars

(***************************************************************************)
(* Properties                                                              *)
(***************************************************************************)
DistSq(p, q) == (p[1] - q[1]) * (p[1] - q[1]) + (p[2] - q[2]) * (p[2] - q[2])

\* Point i (from 0) of a flat vector of floats
PointOf(points, i) == <<points[i * 2 + 1], points[i * 2 + 2]>>
NumPoints(points) == Len(points) \div 2

Lowest(S, none) == IF S = {} THEN none ELSE CHOOSE k \in S : \A j \in S : k <= j

LeftPress   == last.ev = "press" /\ last.button = "LEFT"
RightPress  == last.ev = "press" /\ last.button = "RIGHT"
LeftRelease == last.ev = "release" /\ last.button = "LEFT"

\* C1: after every handler the stored curve sample is the evaluation of
\* the current control-point list, and is empty when the list has fewer
\* than 2 points (both editors).
C1_CurveIsEvaluationOfList ==
    /\ curve_points = compute_curve(control_points)
    /\ (Len(control_points) < 2 => curve_points = <<>>)
    /\ curvePoints = computeBezierCurve(controlPoints)
    /\ (NumPoints(controlPoints) < 2 => curvePoints = <<>>)

\* A drag in part_000 has moved a point and the curve was recomputed.
C1_Witness ==
    /\ prog = "global" /\ last.ev = "move" /\ dragging
    /\ controlPoints # InitialControlPoints
    /\ curvePoints # computeBezierCurve(InitialControlPoints)

\* C2: in part_000, whenever dragging is true, 0 <= draggedIndex < number
\* of control points.
C2_DraggedIndexInRange ==
    (prog = "global" /\ dragging) =>
        (0 <= draggedIndex /\ draggedIndex < NumPoints(controlPoints))

\* C3: in source.cpp, while is_moving is true move_iter points at an
\* element of control_points, never one past the end.
C3_MoveIterInsideList ==
    (prog = "class" /\ is_moving) =>
        (1 <= move_iter /\ move_iter <= Len(control_points))

\* C4: in source.cpp, while a drag is active no primary-press or
\* cursor-move event changes control_points or curve_points; as long as
\* only cursor moves followed the press, the list is the press-time list.
C4_NoCommitBeforeRelease ==
    /\ []((prog = "class" /\ gest.active) => control_points = gest.points)
    /\ [][(prog = "class" /\ is_moving /\ (last'.ev = "move" \/ LeftPress'))
            => (control_points' = control_points /\ curve_points' = curve_points)]_vars

\* The cursor has left the dragged point behind: the list still holds the
\* pre-drag value.
C4_Witness ==
    /\ prog = "class" /\ is_moving /\ last.ev = "move"
    /\ gest.active /\ gest.moved
    /\ control_points[move_iter] # cursor

\* C5: a primary press that hits point i, then only cursor moves (at least
\* one), then a primary release at the cursor position q: same length, entry
\* i is q in the stored coordinate space, every other entry unchanged, the
\* curve is the evaluation of the final list, no drag is active.
C5_DragCommitsAtRelease ==
    (LeftRelease /\ last.drag.active /\ last.drag.moved) =>
        IF prog = "class"
        THEN /\ Len(control_points) = Len(last.drag.points)
             /\ \A k \in 1..Len(control_points) :
                    control_points[k] =
                        IF k = last.drag.index THEN cursor ELSE last.drag.points[k]
             /\ curve_points = compute_curve(control_points)
             /\ ~is_moving
        ELSE LET m == screenToGLCoords(cursor[1], cursor[2])
             IN  /\ Len(controlPoints) = Len(last.drag.points)
                 /\ \A i \in 0..(NumPoints(controlPoints) - 1) :
                        PointOf(controlPoints, i) =
                            IF i = last.drag.index THEN m
                            ELSE PointOf(last.drag.points, i)
                 /\ curvePoints = computeBezierCurve(controlPoints)
                 /\ ~dragging /\ draggedIndex = -1

\* Such a gesture has ended in part_000 and has changed the list.
C5_Witness ==
    /\ prog = "global" /\ LeftRelease /\ last.drag.active /\ last.drag.moved
    /\ controlPoints # last.drag.points

\* C6: in source.cpp, after a cursor move during a drag moving_points.back()
\* is the cursor position.
C6_CandidateFollowsCursor ==
    (prog = "class" /\ is_moving /\ last.ev = "move") =>
        (moving_points # <<>> /\ moving_points[Len(moving_points)] = cursor)

\* The control points of each editor within its hit threshold of a position
CloseClass(p) ==
    {k \in 1..Len(control_points) : is_close(control_points[k], p)}
CloseGlobal(m) ==
    {i \in 0..(NumPoints(controlPoints) - 1) :
        getPointDistance(controlPoints, i, m[1], m[2]) < threshold * threshold}

\* C7: the hit-test selects the lowest-index point within the threshold of
\* the query, none when there is none; a grab drags that point.
C7_FirstMatchWins ==
    /\ \A p \in ClassPositions :
           FindClose(control_points, 1, p) = Lowest(CloseClass(p), 0)
    /\ \A p \in GlobalPositions :
           LET m == screenToGLCoords(p[1], p[2])
           IN  findPointUnderCursor(controlPoints, m[1], m[2])
                   = Lowest(CloseGlobal(m), -1)
    /\ (prog = "class" /\ LeftPress /\ is_moving) =>
           move_iter = Lowest(CloseClass(cursor), 0)
    /\ (prog = "global" /\ LeftPress /\ dragging) =>
           draggedIndex = Lowest(CloseGlobal(screenToGLCoords(cursor[1], cursor[2])), -1)

\* A grab in part_000 took the first of two points within the threshold
\* although the later one is nearer to the cursor.
C7_Witness ==
    /\ prog = "global" /\ LeftPress /\ dragging
    /\ LET m == screenToGLCoords(cursor[1], cursor[2])
       IN  \E j \in CloseGlobal(m) :
               /\ j > draggedIndex
               /\ DistSq(PointOf(controlPoints, j), m)
                      < DistSq(PointOf(controlPoints, draggedIndex), m)

\* C8 as stated: in both editors a point is hit only if its squared
\* distance to the query is strictly below the threshold squared.
C8_StrictInBothEditors ==
    /\ \A p \in ClassPositions :
           LET it == FindClose(control_points, 1, p)
           IN  it # 0 => DistSq(control_points[it], p) < POINT_THRESHOLD * POINT_THRESHOLD
    /\ \A p \in GlobalPositions :
           LET m == screenToGLCoords(p[1], p[2])
               i == findPointUnderCursor(controlPoints, m[1], m[2])
           IN  i # -1 => DistSq(PointOf(controlPoints, i), m) < threshold * threshold

\* C8 as amended: part_000's hit-test is strict (a point at exactly the
\* threshold is not hit); source.cpp's is inclusive (a point is hit exactly
\* when its distance is at most POINT_THRESHOLD).
C8_StrictGlobalInclusiveClass ==
    /\ \A p \in ClassPositions :
           FindClose(control_points, 1, p) # 0 <=>
               \E k \in 1..Len(control_points) :
                   DistSq(control_points[k], p) <= POINT_THRESHOLD * POINT_THRESHOLD
    /\ \A p \in GlobalPositions :
           LET m == screenToGLCoords(p[1], p[2])
           IN  findPointUnderCursor(controlPoints, m[1], m[2]) # -1 <=>
                   \E i \in 0..(NumPoints(controlPoints) - 1) :
                       DistSq(PointOf(controlPoints, i), m) < threshold * threshold

\* source.cpp has grabbed a point at exactly POINT_THRESHOLD from the cursor.
C8_Witness ==
    /\ prog = "class" /\ LeftPress /\ is_moving
    /\ DistSq(control_points[move_iter], cursor) = POINT_THRESHOLD * POINT_THRESHOLD

\* C9: a secondary press that hits point i and may delete removes exactly
\* that point, the others keep value and order at consecutive indices; a
\* secondary press that hits nothing leaves list and curve unchanged.
C9_DeleteRemovesExactlyThatPoint ==
    [][RightPress' =>
        IF prog = "class"
        THEN LET it == FindClose(control_points, 1, cursor)
             IN  IF it # 0
                 THEN /\ Len(control_points') = Len(control_points) - 1
                      /\ \A k \in 1..Len(control_points') :
                             control_points'[k] =
                                 control_points[IF k < it THEN k ELSE k + 1]
                 ELSE control_points' = control_points /\ curve_points' = curve_points
        ELSE LET m == screenToGLCoords(cursor[1], cursor[2])
                 i == findPointUnderCursor(controlPoints, m[1], m[2])
             IN  IF i # -1 /\ NumPoints(controlPoints) > 2
                 THEN /\ NumPoints(controlPoints') = NumPoints(controlPoints) - 1
                      /\ Len(controlPoints') = Len(controlPoints) - 2
                      /\ \A j \in 0..(NumPoints(controlPoints') - 1) :
                             PointOf(controlPoints', j) =
                                 PointOf(controlPoints, IF j < i THEN j ELSE j + 1)
                 ELSE i = -1 =>
                         (controlPoints' = controlPoints /\ curvePoints' = curvePoints)
    ]_vars

\* source.cpp has deleted a point that was neither the first nor the last.
C9_Witness ==
    /\ prog = "class" /\ RightPress
    /\ last.size = Len(control_points) + 1
    /\ 1 < last.hit /\ last.hit <= Len(control_points)

\* C10: part_000 always holds at least 2 control points, and a secondary
\* press that hits a point while exactly 2 remain changes neither the list
\* nor the curve.
C10_AtLeastTwoPoints ==
    /\ [](prog = "global" => NumPoints(controlPoints) >= 2)
    /\ [][(prog = "global" /\ RightPress' /\ last'.hit # -1
               /\ NumPoints(controlPoints) = 2)
            => (controlPoints' = controlPoints /\ curvePoints' = curvePoints)]_vars

\* A secondary press has hit one of the last 2 points and was refused.
C10_Witness ==
    /\ prog = "global" /\ RightPress /\ last.hit # -1 /\ last.size = 2
    /\ NumPoints(controlPoints) = 2

ClearPress ==
    last.ev = "key" /\ last.button \in {"ENTER", "SPACE"} /\ last.action = "PRESS"

\* C11: in source.cpp a press of Enter or Space in any state, also in the
\* middle of a drag, leaves control_points, curve_points and moving_points
\* empty and is_moving false; a primary release that follows appends a new
\* point instead of writing through the old drag handle.
C11_ClearEmptiesEverything ==
    /\ []((prog = "class" /\ ClearPress) =>
            /\ control_points = <<>> /\ curve_points = <<>>
            /\ moving_points = <<>> /\ ~is_moving)
    /\ [][(prog = "class" /\ ClearPress /\ LeftRelease') =>
            (control_points' = <<cursor>> /\ curve_points' = <<>> /\ ~is_moving')]_vars

\* A clear key was pressed in the middle of a drag, the primary button is
\* still held.
C11_Witness ==
    /\ prog = "class" /\ ClearPress /\ last.drag.active /\ left_down
    /\ move_iter # 0 /\ control_points = <<>>

\* Sample i (from 0) of a flat curve as a pair of <<numerator, denominator>>
SampleOf(curve, i) == <<curve[i * 2 + 1], curve[i * 2 + 2]>>

\* The sample is the point p
SampleIs(sample, p) ==
    /\ sample[1][1] = p[1] * sample[1][2]
    /\ sample[2][1] = p[2] * sample[2][2]

BezierDone(resolution) ==
    prog = "eval" /\ last.ev = "computeBezierCurve" /\ last.resolution = resolution

\* C12: at CURVE_RESOLUTION = 100, for every list of N >= 2 control points
\* computeBezierCurve returns exactly 101 sample points, the first equal to
\* the first control point and the last equal to the last control point.
C12_SamplesAndEndpoints ==
    (BezierDone(CURVE_RESOLUTION) /\ NumPoints(controlPoints) >= 2) =>
        /\ Len(curvePoints) = 2 * 101
        /\ SampleIs(SampleOf(curvePoints, 0), PointOf(controlPoints, 0))
        /\ SampleIs(SampleOf(curvePoints, 100),
                    PointOf(controlPoints, NumPoints(controlPoints) - 1))

\* A list of at least 3 points with different end points was evaluated at
\* resolution 100 and the curve leaves the first point at once.
C12_Witness ==
    /\ BezierDone(CURVE_RESOLUTION) /\ NumPoints(controlPoints) >= 3
    /\ PointOf(controlPoints, 0) # PointOf(controlPoints, NumPoints(controlPoints) - 1)
    /\ Len(curvePoints) = 202
    /\ ~SampleIs(SampleOf(curvePoints, 1), PointOf(controlPoints, 0))

\* C13: for exactly 2 control points P0, P1 and resolution R, sample i
\* (0 <= i <= R) is P0 + (i/R) * (P1 - P0): evenly spaced on the segment;
\* for (0,0), (10,0) and R = 10 the samples are (0,0), (1,0), ..., (10,0).
\* Both evaluators.
C13_TwoPointsLinear ==
    /\ (prog = "eval" /\ last.ev = "computeBezierCurve" /\ NumPoints(controlPoints) = 2) =>
           LET R == last.resolution
               P0 == PointOf(controlPoints, 0)
               P1 == PointOf(controlPoints, 1)
           IN  \A i \in 0..R : \A c \in 1..2 :
                   LET sample == SampleOf(curvePoints, i)
                   IN  sample[c][1] * R = sample[c][2] * (R * P0[c] + i * (P1[c] - P0[c]))
    /\ (BezierDone(10) /\ controlPoints = <<0, 0, 10, 0>>) =>
           \A i \in 0..10 : SampleIs(SampleOf(curvePoints, i), <<i, 0>>)
    /\ (prog = "eval" /\ Len(control_points) = 2) =>
           \A R \in EvalResolutions : \A i \in 0..R :
               LET sample == compute_point(control_points, i, R)[1]
                   P0 == control_points[1]
                   P1 == control_points[2]
               IN  /\ sample.x * R = sample.den * (R * P0[1] + i * (P1[1] - P0[1]))
                   /\ sample.y * R = sample.den * (R * P0[2] + i * (P1[2] - P0[2]))

\* (0,0), (10,0) was evaluated at resolution 10; sample 3 is (3,0).
C13_Witness ==
    /\ BezierDone(10) /\ controlPoints = <<0, 0, 10, 0>>
    /\ Len(curvePoints) = 22
    /\ SampleIs(SampleOf(curvePoints, 3), <<3, 0>>)

RECURSIVE Binomial(_, _)
Binomial(n, k) ==
    IF k = 0 \/ k = n THEN 1 ELSE Binomial(n - 1, k - 1) + Binomial(n - 1, k)

\* Coordinate c of the Bernstein-form Bezier point of the points P (a
\* sequence of pairs) at t = tn/td: the numerator over td^(Len(P) - 1),
\* the sum over k >= from of C(n,k) (1-t)^(n-k) t^k P_k
RECURSIVE BernsteinFrom(_, _, _, _, _)
BernsteinFrom(P, c, from, tn, td) ==
    LET n == Len(P) - 1
    IN  IF from > n THEN 0
        ELSE Binomial(n, from) * Pow(td - tn, n - from) * Pow(tn, from) * P[from + 1][c]
                 + BernsteinFrom(P, c, from + 1, tn, td)

Bernstein(P, tn, td) ==
    [x |-> BernsteinFrom(P, 1, 0, tn, td), y |-> BernsteinFrom(P, 2, 0, tn, td),
     den |-> Pow(td, Len(P) - 1)]

\* C14: for 3 control points the De Casteljau collapse at t = 1/2 is
\* (P0 + 2*P1 + P2)/4, (5,5) for (0,0), (5,10), (10,0); for lists of 2 to 4
\* points the point left after count-1 rounds is the Bernstein-form Bezier
\* point at t.  Both evaluators.
C14_DeCasteljauIsBernstein ==
    prog = "eval" =>
        LET P == control_points
            n == Len(P) - 1
        IN  /\ Len(P) = 3 =>
                /\ compute_point(P, 1, 2) =
                       << [x |-> P[1][1] + 2 * P[2][1] + P[3][1],
                           y |-> P[1][2] + 2 * P[2][2] + P[3][2], den |-> 4] >>
                /\ BezierSample(controlPoints, 2, 1, 2) =
                       << <<P[1][1] + 2 * P[2][1] + P[3][1], 4>>,
                          <<P[1][2] + 2 * P[2][2] + P[3][2], 4>> >>
            /\ P = << <<0, 0>>, <<5, 10>>, <<10, 0>> >> =>
                   compute_point(P, 1, 2) = << [x |-> 5 * 4, y |-> 5 * 4, den |-> 4] >>
            /\ Len(P) \in 2..4 =>
                /\ \A td \in {2, CurveStepDen, 10} : \A tn \in 0..td :
                       /\ compute_point(P, tn, td) = << Bernstein(P, tn, td) >>
                       /\ BezierSample(controlPoints, n, tn, td) =
                              << <<Bernstein(P, tn, td).x, Bernstein(P, tn, td).den>>,
                                 <<Bernstein(P, tn, td).y, Bernstein(P, tn, td).den>> >>
                /\ last.ev = "compute_curve" =>
                       \A k \in 0..CurveStepDen :
                           curve_points[k + 1] = Bernstein(P, k, CurveStepDen)
                /\ last.ev = "computeBezierCurve" =>
                       \A i \in 0..last.resolution :
                           LET b == Bernstein(P, i, last.resolution)
                           IN  SampleOf(curvePoints, i) = << <<b.x, b.den>>, <<b.y, b.den>> >>

\* compute_curve has run on (0,0), (5,10), (10,0), whose collapse at 1/2
\* is (5,5).
C14_Witness ==
    /\ prog = "eval" /\ last.ev = "compute_curve"
    /\ control_points = << <<0, 0>>, <<5, 10>>, <<10, 0>> >>
    /\ Len(curve_points) = CurveStepDen + 1
    /\ compute_point(control_points, 1, 2) = << [x |-> 20, y |-> 20, den |-> 4] >>

\* C15: in both editors a primary press in the idle state that hits a
\* control point starts a drag on the hit index and changes neither the
\* control-point list nor the curve sample; no point is added.
C15_GrabChangesNoPoint ==
    [][LeftPress' =>
        /\ (prog = "class" /\ ~is_moving /\ FindClose(control_points, 1, cursor) # 0) =>
               /\ is_moving' /\ move_iter' = FindClose(control_points, 1, cursor)
               /\ control_points' = control_points
               /\ curve_points' = curve_points
               /\ is_deleting' = is_deleting
        /\ LET m == screenToGLCoords(cursor[1], cursor[2])
               i == findPointUnderCursor(controlPoints, m[1], m[2])
           IN  (prog = "global" /\ ~dragging /\ i # -1) =>
                   /\ dragging' /\ draggedIndex' = i
                   /\ controlPoints' = controlPoints
                   /\ curvePoints' = curvePoints
    ]_vars

\* source.cpp has grabbed a point a little off the cursor, in a list of
\* at least 2 points.
C15_Witness ==
    /\ prog = "class" /\ LeftPress /\ is_moving /\ last.hit = move_iter
    /\ Len(control_points) >= 2
    /\ control_points[move_iter] # cursor
    /\ moving_points = <<cursor>>

\* C16: adding a point appends it as the last entry: a primary press that
\* hits no point (part_000) and a primary release while no drag is active
\* (source.cpp) make the list one longer, put the new point at the end, keep
\* all earlier entries in order and recompute the curve sample.
C16_AddAppendsAtEnd ==
    [][/\ (prog = "class" /\ LeftRelease' /\ ~is_moving) =>
              /\ Len(control_points') = Len(control_points) + 1
              /\ control_points'[Len(control_points')] = cursor
              /\ \A k \in 1..Len(control_points) : control_points'[k] = control_points[k]
              /\ curve_points' = compute_curve(control_points')
       /\ LET m == screenToGLCoords(cursor[1], cursor[2])
          IN  (prog = "global" /\ LeftPress'
                  /\ findPointUnderCursor(controlPoints, m[1], m[2]) = -1) =>
                  /\ NumPoints(controlPoints') = NumPoints(controlPoints) + 1
                  /\ Len(controlPoints') = Len(controlPoints) + 2
                  /\ PointOf(controlPoints', NumPoints(controlPoints)) = m
                  /\ \A k \in 1..Len(controlPoints) : controlPoints'[k] = controlPoints[k]
                  /\ curvePoints' = computeBezierCurve(controlPoints')
    ]_vars

\* source.cpp has added a point to a non-empty list: it is the last one.
C16_Witness ==
    /\ prog = "class" /\ LeftRelease /\ ~last.drag.active
    /\ Len(control_points) = last.size + 1 /\ Len(control_points) >= 2
    /\ control_points[Len(control_points)] = cursor
    /\ control_points[1] # cursor

\* C17: in source.cpp the Delete-key flag is dead: a run and the run that
\* receives the same mouse and clear-key events but no Delete-key event
\* (hence any two runs that differ only in their Delete-key events) have the
\* same control_points, curve_points, moving_points and is_moving after
\* every event, and a Delete-key event changes none of them.
C17_DeleteFlagIsDead ==
    /\ [](prog = "class" =>
            /\ control_points = twin.control_points
            /\ curve_points = twin.curve_points
            /\ moving_points = twin.moving_points
            /\ is_moving = twin.is_moving)
    /\ [][(prog = "class" /\ last'.ev = "key" /\ last'.button = "DELETE") =>
            UNCHANGED <<control_points, curve_points, moving_points, is_moving>>]_vars

\* The two runs disagree on the flag in the middle of a drag, mouse events
\* have followed the Delete press.
C17_Witness ==
    /\ prog = "class" /\ is_deleting /\ ~twin.is_deleting
    /\ is_moving /\ Len(control_points) >= 2
    /\ last.ev = "move"

\* The last sample compute_curve pushed: compute_point at t = loop.back
LastStepSample ==
    compute_point(control_points, loop.back.m, Pow(2, 23 - loop.back.e))[1]

\* C18: with CURVE_STEP = 0.0001f and t accumulated as a float, compute_curve
\* on a list of N >= 2 points returns floor(1/s) + 1 = 10001 samples and its
\* last sample is the last control point.
C18_StepSamplesAndLastPoint ==
    (prog = "step" /\ loop.pc = "done" /\ Len(control_points) >= 2) =>
        /\ loop.size = 10001
        /\ LastStepSample.x = control_points[Len(control_points)][1] * LastStepSample.den
        /\ LastStepSample.y = control_points[Len(control_points)][2] * LastStepSample.den

\* C19: in both editors the drag handle keeps designating the control point
\* hit at press time for the whole drag: a secondary-press deletion during
\* a drag leaves move_iter / draggedIndex on the grabbed point, and the
\* release of source.cpp writes onto the point that was grabbed (the one
\* within POINT_THRESHOLD of the press position kept in moving_points).
C19_HandleKeepsGrabbedPoint ==
    /\ [][(prog = "class" /\ is_moving /\ RightPress'
              /\ Len(control_points') < Len(control_points)) =>
            /\ move_iter' \in 1..Len(control_points')
            /\ control_points'[move_iter'] = control_points[move_iter]]_vars
    /\ [][(prog = "class" /\ is_moving /\ LeftRelease' /\ ~crashed') =>
            /\ move_iter \in 1..Len(control_points)
            /\ is_close(control_points[move_iter], moving_points[1])]_vars
    /\ [][(prog = "global" /\ dragging /\ RightPress'
              /\ Len(controlPoints') < Len(controlPoints)) =>
            /\ draggedIndex' \in 0..(NumPoints(controlPoints') - 1)
            /\ PointOf(controlPoints', draggedIndex')
                   = PointOf(controlPoints, draggedIndex)]_vars

\* C20: in part_000 a release of any mouse button ends the drag: after any
\* release dragging is false and draggedIndex is -1, so after a secondary
\* release with the primary button still held the point no longer follows
\* the cursor; in every reachable state dragging is true exactly when
\* draggedIndex is not -1.
C20_AnyReleaseEndsDrag ==
    /\ []((prog = "global" /\ last.ev = "release") =>
              (~dragging /\ draggedIndex = -1))
    /\ [](prog = "global" => (dragging <=> draggedIndex # -1))
    /\ [][(prog = "global" /\ last.ev = "release" /\ last'.ev = "move") =>
              (controlPoints' = controlPoints /\ curvePoints' = curvePoints)]_vars

\* The secondary button was released while the primary button is held on a
\* seed point that had been dragged away: the drag is over.
C20_Witness ==
    /\ prog = "global" /\ last.ev = "release" /\ last.button = "RIGHT"
    /\ left_down /\ ~dragging /\ draggedIndex = -1
    /\ NumPoints(controlPoints) = NumPoints(InitialControlPoints)
    /\ controlPoints # InitialControlPoints

\* A step of the render loop that runs processInput
FrameRuns == frame.pc = "processInput" /\ frame'.pc = "glfwPollEvents"

\* C21: in the cube scene lightOn changes in exactly the frames that find L
\* pressed after the frame before found it released, so over any run it has
\* flipped once per such transition and never while L stays held; magentaOn
\* does the same with M; what a frame does to one toggle is a function of
\* that toggle and its own key alone.
C21_TogglesAreEdgeTriggered ==
    /\ [][(lightOn' # lightOn) <=>
              (FrameRuns /\ "L" \in pressed /\ "L" \notin seen.held)]_vars
    /\ [][(magentaOn' # magentaOn) <=>
              (FrameRuns /\ "M" \in pressed /\ "M" \notin seen.held)]_vars
    /\ [][("L" \in pressed /\ "L" \in seen.held) => lightOn' = lightOn]_vars
    /\ [][("M" \in pressed /\ "M" \in seen.held) => magentaOn' = magentaOn]_vars
    /\ [](seen.flips = seen.rises)
    /\ [](lightOn = (seen.flips.L % 2 = 0) /\ magentaOn = (seen.flips.M % 2 = 1))

\* L was held through three frames and switched the light off once, while M
\* was pressed, released and pressed again and switched magenta on and off.
C21_Witness ==
    /\ prog = "cube" /\ frame.n = 3
    /\ "L" \in pressed /\ "L" \in seen.held
    /\ seen.rises.L = 1 /\ seen.flips.L = 1 /\ ~lightOn
    /\ seen.rises.M = 2 /\ seen.flips.M = 2 /\ ~magentaOn

====
